---- MODULE Spec2Model ----
(***************************************************************************)
(* open-telemetry-and-cloud-trace/main.go: an HTTP service with one route, *)
(* "/run", whose handler fetches a repository description from an upstream *)
(* REST endpoint and reports it as text, tracing each step with spans.     *)
(*                                                                         *)
(* The model follows main.go statement by statement.  Every handler        *)
(* invocation r is a goroutine with its own program counter pc[r], named   *)
(* after the source line it is about to execute (h83 = handler, line 83;   *)
(* f112 = fetchJSON, line 112).  The outbound call is timed by a           *)
(* per-request clock counting whole seconds.                               *)
(***************************************************************************)
EXTENDS Integers, Sequences, FiniteSets, TLC

VARIABLES
    mainpc,     \* position of the main goroutine
    tracer,     \* the package-level variable tracer (line 32)
    environ,    \* the process environment
    log,        \* lines written by the log package
    routes,     \* patterns registered on the default ServeMux
    port,       \* the local variable port of serveHTTP
    listenAddr, \* address handed to http.ListenAndServe
    upstream,   \* the profile of the upstream endpoint: "any" or "prompt"
    pc,         \* pc[r]: position of handler invocation r
    spans,      \* the spans of the tracer provider, by span identity
    loc,        \* loc[r]: the local variables of handler and fetchJSON
    get,        \* get[r]: the outbound call and its response
    resp,       \* resp[r]: the http.ResponseWriter of request r
    stderr,     \* os.Stderr
    hist        \* hist[r]: the calls request r has made, in order

vars == <<mainpc, tracer, environ, log, routes, port, listenAddr, upstream,
          pc, spans, loc, get, resp, stderr, hist>>

-----------------------------------------------------------------------------
(* Bounds of the model *)

\* number of handler invocations running concurrently under SpecConc
MaxReq == 2

(* Program constants *)

\* http.Client{Timeout: 5 * time.Second}
ClientTimeout == 5
\* context.WithTimeout(subCtx, time.Second * 3)
FetchTimeout == 3
StatusInternalServerError == 500
StatusOK == 200

DefaultPort == "8080"
RoutePath == "/run"
TracerName == "company.com/trace"
RepoURL == "https://api.github.com/repos/golang/go"

-----------------------------------------------------------------------------
(* Values *)

Nil == "<nil>"

\* type Repository struct, and the zero value new(Repository) points to
ZeroRepository ==
    [Id |-> 0, StargazersCount |-> 0, Forks |-> 0, Name |-> "", FullName |-> ""]

\* the json tags of Repository, in declaration order
JSONKeys == <<"id", "stargazers_count", "forks", "name", "full_name">>

FieldOf(key) ==
    CASE key = "id" -> "Id"
      [] key = "stargazers_count" -> "StargazersCount"
      [] key = "forks" -> "Forks"
      [] key = "name" -> "Name"
      [] key = "full_name" -> "FullName"

GoTypeOf(key) == IF key \in {"name", "full_name"} THEN "string" ELSE "int"

\* JSON values: a number or a string
Num(n) == [t |-> "number", n |-> n, s |-> ""]
Str(s) == [t |-> "string", n |-> 0, s |-> s]

\* the values a key may carry upstream: two of the field's type, and for
\* id and name one of the wrong type
ValuesOf(key) ==
    CASE key = "id" -> {Num(1), Num(-23), Str("1")}
      [] key = "stargazers_count" -> {Num(0), Num(9000)}
      [] key = "forks" -> {Num(500)}
      [] key = "name" -> {Str("go"), Str(""), Num(4)}
      [] key = "full_name" -> {Str("golang/go"), Str("a/b")}

KeySet == {JSONKeys[i] : i \in 1..Len(JSONKeys)}

AllValues == UNION {ValuesOf(k) : k \in KeySet}

\* every JSON object over the keys of Repository; absent keys are absent
JSONObjects ==
    {o \in UNION {[K -> AllValues] : K \in SUBSET KeySet} :
        \A k \in DOMAIN o : o[k] \in ValuesOf(k)}

ObjectBody(o) == [kind |-> "object", obj |-> o]
MalformedBody == [kind |-> "malformed", obj |-> <<>>]

\* the body of the scenario: golang/go with 9000 stars and 500 forks
GoBody ==
    ObjectBody([k \in KeySet |->
        CASE k = "id" -> Num(1)
          [] k = "stargazers_count" -> Num(9000)
          [] k = "forks" -> Num(500)
          [] k = "name" -> Str("go")
          [] k = "full_name" -> Str("golang/go")])

Response(status, body) == [kind |-> "resp", status |-> status, body |-> body]
NetError == [kind |-> "neterr", status |-> 0, body |-> MalformedBody]
NoReply == [kind |-> "none", status |-> 0, body |-> MalformedBody]

\* what the upstream may answer under each of its profiles: "any" answers
\* with any object, "prompt" with one of three answers
Replies(profile) ==
    IF profile = "any"
    THEN {NetError}
         \cup {Response(s, ObjectBody(o)) : s \in {200, 404}, o \in JSONObjects}
         \cup {Response(s, MalformedBody) : s \in {200, 502}}
    ELSE {NetError, Response(200, GoBody), Response(200, MalformedBody)}

\* the instants, in seconds after the request was sent, at which it may
\* answer: "any" at every instant up to the client's timeout, "prompt" at once
Instants(profile) == IF profile = "any" THEN 0..ClientTimeout ELSE {0}

-----------------------------------------------------------------------------
(* fmt *)

Digit(d) == SubSeq("0123456789", d + 1, d + 1)

RECURSIVE Digits(_)
Digits(n) == IF n < 10 THEN Digit(n) ELSE Digits(n \div 10) \o Digit(n % 10)

\* the verb %d on an int
Itoa(n) == IF n < 0 THEN "-" \o Digits(-n) ELSE Digits(n)

IsVerb(piece) == piece \in {"%s", "%d", "%v"}

FormatArg(verb, arg) == IF verb = "%d" THEN Itoa(arg.n) ELSE arg.s

\* fmt.Fprintf's formatting: the pieces of the format in order, each verb
\* consuming the next operand
RECURSIVE Sprintf(_, _)
Sprintf(format, args) ==
    IF format = <<>> THEN ""
    ELSE IF IsVerb(Head(format))
         THEN FormatArg(Head(format), Head(args)) \o Sprintf(Tail(format), Tail(args))
         ELSE Head(format) \o Sprintf(Tail(format), args)

\* "error: %v\n"
ErrorFormat == <<"error: ", "%v", "\n">>

\* "===== %s =====\nRepository: %s (ID: %d)\nStar Count: %d\nFork Count: %d\nURL: https://github.com/%s"
ReportFormat ==
    <<"===== ", "%s", " =====\nRepository: ", "%s", " (ID: ", "%d",
      ")\nStar Count: ", "%d", "\nFork Count: ", "%d",
      "\nURL: https://github.com/", "%s">>

\* the operands with star count and fork count exchanged
ReportArgs_Swapped(repo) ==
    <<Str(repo.FullName), Str(repo.Name), Num(repo.Id), Num(repo.Forks),
      Num(repo.StargazersCount), Str(repo.FullName)>>

ReportArgs(repo) ==
    <<Str(repo.FullName), Str(repo.Name), Num(repo.Id), Num(repo.StargazersCount),
      Num(repo.Forks), Str(repo.FullName)>>

-----------------------------------------------------------------------------
(* encoding/json *)

SyntaxError == "invalid character '<' looking for beginning of value"

TypeError(key, val) ==
    "json: cannot unmarshal " \o val.t \o " into Go struct field Repository."
        \o key \o " of type " \o GoTypeOf(key)

Matches(key, val) ==
    IF GoTypeOf(key) = "string" THEN val.t = "string" ELSE val.t = "number"

\* one key of the object stored into its field; a value of the wrong type
\* leaves the field alone and is remembered as the error if it is the first
StoreKey(acc, key, obj) ==
    IF key \notin DOMAIN obj THEN acc
    ELSE IF Matches(key, obj[key])
         THEN [acc EXCEPT !.repo[FieldOf(key)] =
                    IF GoTypeOf(key) = "string" THEN obj[key].s ELSE obj[key].n]
         ELSE [acc EXCEPT !.err = IF @ = Nil THEN TypeError(key, obj[key]) ELSE @]

RECURSIVE DecodeKeys(_, _, _)
DecodeKeys(acc, keys, obj) ==
    IF keys = <<>> THEN acc
    ELSE DecodeKeys(StoreKey(acc, Head(keys), obj), Tail(keys), obj)

\* json.NewDecoder(r.Body).Decode(target)
Decode(body, target) ==
    IF body.kind = "malformed" THEN [repo |-> target, err |-> SyntaxError]
    ELSE DecodeKeys([repo |-> target, err |-> Nil], JSONKeys, body.obj)

-----------------------------------------------------------------------------
(* Spans and contexts *)

SpanNames == {"/run", "fetch json", "parse json", "write"}

Reqs == DOMAIN pc

SpanIds == Reqs \X SpanNames

NoSpan == <<0, "">>

\* a context.Context: the span it carries and its deadline (0: none)
Ctx(span, deadline) == [span |-> span, deadline |-> deadline]

\* r.Context(): the context of an inbound request carries no span
RequestCtx == Ctx(NoSpan, 0)

NewSpan ==
    [started |-> 0, ended |-> 0, parent |-> NoSpan, trace |-> NoSpan,
     events |-> <<>>, attrs |-> {}, late |-> 0]

IsActive(s) == s.started > 0 /\ s.ended = 0

\* tracer.Start(ctx, name): the new span is a child of the span ctx carries
\* and joins its trace; with no span in ctx it is the root of a new trace
Start(sp, ctx, id) ==
    [sp EXCEPT ![id] =
        [@ EXCEPT !.started = @ + 1,
                  !.parent = ctx.span,
                  !.trace = IF ctx.span = NoSpan THEN id ELSE sp[ctx.span].trace]]

\* span.AddEvent(name); a call on a span that is not active is counted
AddEvent(sp, id, name) ==
    IF IsActive(sp[id])
    THEN [sp EXCEPT ![id].events = Append(@, name)]
    ELSE [sp EXCEPT ![id].late = @ + 1]

\* span.SetAttributes(kv...)
SetAttributes(sp, id, kvs) ==
    IF IsActive(sp[id])
    THEN [sp EXCEPT ![id].attrs = @ \cup kvs]
    ELSE [sp EXCEPT ![id].late = @ + 1]

\* span.End()
End(sp, id) == [sp EXCEPT ![id].ended = @ + 1]

-----------------------------------------------------------------------------
(* http.ResponseWriter *)

NewWriter == [status |-> 0, body |-> ""]

\* w.WriteHeader(code): the first call decides the status
WriteHeader(w, code) == IF w.status = 0 THEN [w EXCEPT !.status = code] ELSE w

\* w.Write(text): writes the header with 200 when none was written
Write(w, text) == [WriteHeader(w, StatusOK) EXCEPT !.body = @ \o text]

-----------------------------------------------------------------------------
(* Deferred calls *)

\* the part of the state deferred calls of request r act on
Frame(r) == [spans |-> spans, hist |-> hist[r], get |-> get[r], loc |-> loc[r]]

Note(h, op, what) == Append(h, <<op, what>>)

\* one deferred call: span.End(), Body.Close() or cancel()
Call(d, f) ==
    CASE d[1] = "end" ->
            [f EXCEPT !.spans = End(@, d[2]), !.hist = Note(@, "end", d[2][2])]
      [] d[1] = "close" ->
            [f EXCEPT !.get.closed = @ + 1, !.hist = Note(@, "close", "body")]
      [] d[1] = "cancel" ->
            [f EXCEPT !.loc.timeout = "cancelled", !.hist = Note(@, "cancel", "ctx")]

\* the deferred calls of a returning function run last in, first out
RECURSIVE RunDefers(_, _)
RunDefers(stack, f) ==
    IF stack = <<>> THEN f
    ELSE RunDefers(SubSeq(stack, 1, Len(stack) - 1), Call(stack[Len(stack)], f))

Defer(stack, d) == Append(stack, d)

-----------------------------------------------------------------------------
(* Initial states *)

PortValues == {"", "3000", "8080", "http"}

\* the process environment: PORT unset, or set to one of PortValues
Environments == {<<>>} \cup [{"PORT"} -> PortValues]

InitLoc ==
    [hSubCtx |-> RequestCtx, hSpan |-> NoSpan, wSpan |-> NoSpan,
     repo |-> ZeroRepository, err |-> Nil, hDefers |-> <<>>,
     fCtx |-> RequestCtx, fSubCtx |-> RequestCtx, fSpan |-> NoSpan,
     fErr |-> Nil, fDefers |-> <<>>, timeout |-> "none"]

InitGet == [state |-> "idle", elapsed |-> 0, reply |-> NoReply, closed |-> 0, decoded |-> 0]

\* the process at the start of main, about to serve the requests of R
Start0(R) ==
    /\ mainpc = "initTracer"
    /\ tracer = Nil
    /\ log = <<>>
    /\ routes = {}
    /\ port = ""
    /\ listenAddr = ""
    /\ pc = [r \in R |-> "idle"]
    /\ spans = [id \in R \X SpanNames |-> NewSpan]
    /\ loc = [r \in R |-> InitLoc]
    /\ get = [r \in R |-> InitGet]
    /\ resp = [r \in R |-> NewWriter]
    /\ stderr = <<>>
    /\ hist = [r \in R |-> <<>>]

\* one request, PORT unset, any upstream answer at any instant
Init ==
    /\ Start0({1})
    /\ environ = <<>>
    /\ upstream = "any"

\* one request, any environment, an upstream that answers at once
InitServe ==
    /\ Start0({1})
    /\ environ \in Environments
    /\ upstream = "prompt"

\* MaxReq concurrent requests, PORT unset, an upstream that answers at once
InitConc ==
    /\ Start0(1..MaxReq)
    /\ environ = <<>>
    /\ upstream = "prompt"

-----------------------------------------------------------------------------
(* main, initTracer, serveHTTP *)

\* os.Getenv(key): the empty string when key is unset
Getenv(key) == IF key \in DOMAIN environ THEN environ[key] ELSE ""

\* initTracer (lines 41-67): a failing exporter is fatal; otherwise the
\* tracer is set and the deferred ForceFlush runs on return, its failure
\* only logged
InitTracer ==
    /\ mainpc = "initTracer"
    /\ \E exporterOK \in BOOLEAN, flushOK \in BOOLEAN :
        IF exporterOK
        THEN /\ tracer' = TracerName
             /\ log' = IF flushOK THEN log ELSE Append(log, "failed to flush tracer")
             /\ mainpc' = "s70"
        ELSE /\ log' = Append(log, "texporter.NewExporter: no credentials")
             /\ mainpc' = "exit"
             /\ UNCHANGED tracer
    /\ UNCHANGED <<environ, routes, port, listenAddr, upstream, pc, spans, loc,
                   get, resp, stderr, hist>>

\* the default taken only when PORT is unset, an empty PORT used as it is
S_Port_LookupEnv ==
    /\ mainpc = "s70"
    /\ IF "PORT" \notin DOMAIN environ
       THEN /\ port' = DefaultPort
            /\ log' = Append(log, "defaulting to port " \o DefaultPort)
       ELSE /\ port' = environ["PORT"]
            /\ UNCHANGED log
    /\ mainpc' = "s76"
    /\ UNCHANGED <<tracer, environ, routes, listenAddr, upstream, pc, spans, loc,
                   get, resp, stderr, hist>>

\* serveHTTP, lines 70-74
S_Port ==
    /\ mainpc = "s70"
    /\ IF Getenv("PORT") = ""
       THEN /\ port' = DefaultPort
            /\ log' = Append(log, "defaulting to port " \o DefaultPort)
       ELSE /\ port' = Getenv("PORT")
            /\ UNCHANGED log
    /\ mainpc' = "s76"
    /\ UNCHANGED <<tracer, environ, routes, listenAddr, upstream, pc, spans, loc,
                   get, resp, stderr, hist>>

\* serveHTTP, line 76
S_HandleFunc ==
    /\ mainpc = "s76"
    /\ routes' = routes \cup {RoutePath}
    /\ mainpc' = "s78"
    /\ UNCHANGED <<tracer, environ, log, port, listenAddr, upstream, pc, spans,
                   loc, get, resp, stderr, hist>>

\* serveHTTP, lines 78-79: a listen error is fatal
S_Listen ==
    /\ mainpc = "s78"
    /\ listenAddr' = ":" \o port
    /\ \E ok \in BOOLEAN :
        IF ok
        THEN /\ log' = Append(log, "server starting at: " \o port)
             /\ mainpc' = "listening"
        ELSE /\ log' = Append(Append(log, "server starting at: " \o port),
                              "listen tcp :" \o port \o ": bind: address already in use")
             /\ mainpc' = "exit"
    /\ UNCHANGED <<tracer, environ, routes, port, upstream, pc, spans, loc, get,
                   resp, stderr, hist>>

MainVars == <<mainpc, tracer, environ, log, routes, port, listenAddr, upstream>>

-----------------------------------------------------------------------------
(* handler, lines 82-109 *)

\* the server dispatches handler for a request to the registered route
Accept(r) ==
    /\ mainpc = "listening"
    /\ RoutePath \in routes
    /\ pc[r] = "idle"
    /\ pc' = [pc EXCEPT ![r] = "h83"]
    /\ UNCHANGED <<MainVars, spans, loc, get, resp, stderr, hist>>

\* line 83: subCtx, span := tracer.Start(r.Context(), "/run")
H_Start(r) ==
    /\ pc[r] = "h83"
    /\ spans' = Start(spans, RequestCtx, <<r, "/run">>)
    /\ loc' = [loc EXCEPT ![r].hSubCtx = Ctx(<<r, "/run">>, 0), ![r].hSpan = <<r, "/run">>]
    /\ hist' = [hist EXCEPT ![r] = Note(@, "start", "/run")]
    /\ pc' = [pc EXCEPT ![r] = "h84"]
    /\ UNCHANGED <<MainVars, get, resp, stderr>>

\* line 84: span.AddEvent("handling request")
H_AddEvent(r) ==
    /\ pc[r] = "h84"
    /\ spans' = AddEvent(spans, loc[r].hSpan, "handling request")
    /\ hist' = [hist EXCEPT ![r] = Note(@, "event", loc[r].hSpan[2])]
    /\ pc' = [pc EXCEPT ![r] = "h86"]
    /\ UNCHANGED <<MainVars, loc, get, resp, stderr>>

\* lines 86-87: repo := new(Repository); the call of fetchJSON(subCtx, url, repo)
H_CallFetch(r) ==
    /\ pc[r] = "h86"
    /\ loc' = [loc EXCEPT ![r].repo = ZeroRepository, ![r].fCtx = loc[r].hSubCtx]
    /\ pc' = [pc EXCEPT ![r] = "f112"]
    /\ UNCHANGED <<MainVars, spans, get, resp, stderr, hist>>

\* line 89: _, wSpan := tracer.Start(subCtx, "write")
H_StartWrite(r) ==
    /\ pc[r] = "h89"
    /\ spans' = Start(spans, loc[r].hSubCtx, <<r, "write">>)
    /\ loc' = [loc EXCEPT ![r].wSpan = <<r, "write">>]
    /\ hist' = [hist EXCEPT ![r] = Note(@, "start", "write")]
    /\ pc' = [pc EXCEPT ![r] = "h90"]
    /\ UNCHANGED <<MainVars, get, resp, stderr>>

\* line 90: defer wSpan.End()
H_DeferEnd(r) ==
    /\ pc[r] = "h90"
    /\ loc' = [loc EXCEPT ![r].hDefers = Defer(@, <<"end", loc[r].wSpan>>)]
    /\ pc' = [pc EXCEPT ![r] = "h92"]
    /\ UNCHANGED <<MainVars, spans, get, resp, stderr, hist>>

\* the error branch also taken on an upstream status other than 200
H_CheckErr_Status(r) ==
    /\ pc[r] = "h92"
    /\ pc' = [pc EXCEPT ![r] =
                IF loc[r].err # Nil \/ get[r].reply.status # StatusOK THEN "h93" ELSE "h98"]
    /\ UNCHANGED <<MainVars, spans, loc, get, resp, stderr, hist>>

\* line 92: if err != nil
H_CheckErr(r) ==
    /\ pc[r] = "h92"
    /\ pc' = [pc EXCEPT ![r] = IF loc[r].err # Nil THEN "h93" ELSE "h98"]
    /\ UNCHANGED <<MainVars, spans, loc, get, resp, stderr, hist>>

\* line 93: w.WriteHeader(http.StatusInternalServerError)
H_WriteHeader(r) ==
    /\ pc[r] = "h93"
    /\ resp' = [resp EXCEPT ![r] = WriteHeader(@, StatusInternalServerError)]
    /\ hist' = [hist EXCEPT ![r] = Note(@, "header", "500")]
    /\ pc' = [pc EXCEPT ![r] = "h94"]
    /\ UNCHANGED <<MainVars, spans, loc, get, stderr>>

\* line 94: fmt.Fprintf(io.MultiWriter(os.Stderr, w), "error: %v\n", err)
H_WriteError(r) ==
    /\ pc[r] = "h94"
    /\ LET text == Sprintf(ErrorFormat, <<Str(loc[r].err)>>)
       IN  /\ stderr' = Append(stderr, text)
           /\ resp' = [resp EXCEPT ![r] = Write(@, text)]
    /\ hist' = [hist EXCEPT ![r] = Note(@, "write", "error")]
    /\ pc' = [pc EXCEPT ![r] = "h95"]
    /\ UNCHANGED <<MainVars, spans, loc, get>>

\* the return of handler: its deferred calls run, then the request is done
HandlerReturn(r) ==
    LET f == RunDefers(loc[r].hDefers, Frame(r))
    IN  /\ spans' = f.spans
        /\ hist' = [hist EXCEPT ![r] = Note(f.hist, "return", "handler")]
        /\ get' = [get EXCEPT ![r] = f.get]
        /\ loc' = [loc EXCEPT ![r] = [f.loc EXCEPT !.hDefers = <<>>]]
        /\ pc' = [pc EXCEPT ![r] = "done"]

\* line 95: return
H_ReturnErr(r) ==
    /\ pc[r] = "h95"
    /\ HandlerReturn(r)
    /\ UNCHANGED <<MainVars, resp, stderr>>

\* lines 98-102: span.SetAttributes(repo name, id, stars)
H_SetAttributes(r) ==
    /\ pc[r] = "h98"
    /\ spans' = SetAttributes(spans, loc[r].hSpan,
                    {<<"golang.go.repo.name", Str(loc[r].repo.FullName)>>,
                     <<"golang.go.repo.id", Num(loc[r].repo.Id)>>,
                     <<"golang.go.repo.stars", Num(loc[r].repo.StargazersCount)>>})
    /\ hist' = [hist EXCEPT ![r] = Note(@, "attrs", loc[r].hSpan[2])]
    /\ pc' = [pc EXCEPT ![r] = "h104"]
    /\ UNCHANGED <<MainVars, loc, get, resp, stderr>>

\* lines 104-107: fmt.Fprintf(w, report format, repo fields...)
H_WriteReport(r) ==
    /\ pc[r] = "h104"
    /\ resp' = [resp EXCEPT ![r] = Write(@, Sprintf(ReportFormat, ReportArgs(loc[r].repo)))]
    /\ hist' = [hist EXCEPT ![r] = Note(@, "write", "report")]
    /\ pc' = [pc EXCEPT ![r] = "h108"]
    /\ UNCHANGED <<MainVars, spans, loc, get, stderr>>

\* line 108: span.End()
H_EndRoot(r) ==
    /\ pc[r] = "h108"
    /\ spans' = End(spans, loc[r].hSpan)
    /\ hist' = [hist EXCEPT ![r] = Note(@, "end", loc[r].hSpan[2])]
    /\ pc' = [pc EXCEPT ![r] = "h109"]
    /\ UNCHANGED <<MainVars, loc, get, resp, stderr>>

\* line 109: the end of handler
H_Return(r) ==
    /\ pc[r] = "h109"
    /\ HandlerReturn(r)
    /\ UNCHANGED <<MainVars, resp, stderr>>

-----------------------------------------------------------------------------
(* fetchJSON, lines 111-135 *)

NetErrorText == "Get \"" \o RepoURL \o "\": dial tcp: connect: connection refused"

ClientTimeoutText ==
    "Get \"" \o RepoURL
        \o "\": context deadline exceeded (Client.Timeout exceeded while awaiting headers)"

\* line 112: subCtx, span := tracer.Start(ctx, "fetch json")
F_Start(r) ==
    /\ pc[r] = "f112"
    /\ spans' = Start(spans, loc[r].fCtx, <<r, "fetch json">>)
    /\ loc' = [loc EXCEPT ![r].fSubCtx = Ctx(<<r, "fetch json">>, 0),
                          ![r].fSpan = <<r, "fetch json">>]
    /\ hist' = [hist EXCEPT ![r] = Note(@, "start", "fetch json")]
    /\ pc' = [pc EXCEPT ![r] = "f113"]
    /\ UNCHANGED <<MainVars, get, resp, stderr>>

\* lines 113-114: _, cancel := context.WithTimeout(subCtx, 3s); defer cancel()
\* the derived context is discarded: only its timer and cancel remain
F_WithTimeout(r) ==
    /\ pc[r] = "f113"
    /\ loc' = [loc EXCEPT ![r].timeout = "armed",
                          ![r].fDefers = Defer(@, <<"cancel", NoSpan>>)]
    /\ pc' = [pc EXCEPT ![r] = "f115"]
    /\ UNCHANGED <<MainVars, spans, get, resp, stderr, hist>>

\* line 115: span.AddEvent("fetching repo info from github")
F_AddEvent(r) ==
    /\ pc[r] = "f115"
    /\ spans' = AddEvent(spans, loc[r].fSpan, "fetching repo info from github")
    /\ hist' = [hist EXCEPT ![r] = Note(@, "event", loc[r].fSpan[2])]
    /\ pc' = [pc EXCEPT ![r] = "f116"]
    /\ UNCHANGED <<MainVars, loc, get, resp, stderr>>

\* the deadline of the outbound call: httpClient.Get(url) is given no
\* context, so the only limit is the client's own Timeout (line 31)
GetDeadline(r) == ClientTimeout

\* line 116: r, err := httpClient.Get(url), the request sent
F_GetSend(r) ==
    /\ pc[r] = "f116"
    /\ get' = [get EXCEPT ![r].state = "sent", ![r].elapsed = 0]
    /\ hist' = [hist EXCEPT ![r] = Note(@, "get", "send")]
    /\ pc' = [pc EXCEPT ![r] = "f116w"]
    /\ UNCHANGED <<MainVars, spans, loc, resp, stderr>>

\* one second passes while the call waits; the timer of line 113 expires
\* after FetchTimeout seconds
Tick(r) ==
    /\ pc[r] = "f116w"
    /\ get[r].elapsed < GetDeadline(r)
    /\ get' = [get EXCEPT ![r].elapsed = @ + 1]
    /\ loc' = [loc EXCEPT ![r].timeout =
                  IF @ = "armed" /\ get[r].elapsed + 1 >= FetchTimeout
                  THEN "expired" ELSE @]
    /\ UNCHANGED <<MainVars, pc, spans, resp, stderr, hist>>

\* line 116: the call returns what the upstream answered, or a network error
F_GetReply(r) ==
    /\ pc[r] = "f116w"
    /\ get[r].elapsed \in Instants(upstream)
    /\ get[r].elapsed <= GetDeadline(r)
    /\ \E reply \in Replies(upstream) :
        /\ get' = [get EXCEPT ![r].state = "returned", ![r].reply = reply]
        /\ loc' = [loc EXCEPT ![r].fErr =
                      IF reply.kind = "neterr" THEN NetErrorText ELSE Nil]
        /\ hist' = [hist EXCEPT ![r] =
                      Note(@, "get", IF reply.kind = "neterr" THEN "error" ELSE "response")]
    /\ pc' = [pc EXCEPT ![r] = "f118"]
    /\ UNCHANGED <<MainVars, spans, resp, stderr>>

\* line 116: the call returns the client's timeout error
F_GetTimeout(r) ==
    /\ pc[r] = "f116w"
    /\ get[r].elapsed = GetDeadline(r)
    /\ get' = [get EXCEPT ![r].state = "returned"]
    /\ loc' = [loc EXCEPT ![r].fErr = ClientTimeoutText]
    /\ hist' = [hist EXCEPT ![r] = Note(@, "get", "error")]
    /\ pc' = [pc EXCEPT ![r] = "f118"]
    /\ UNCHANGED <<MainVars, spans, resp, stderr>>

\* the return of fetchJSON with result err: its deferred calls run, and
\* handler goes on at line 89 with err
FetchReturn(r, f0, err) ==
    LET f == RunDefers(f0.loc.fDefers, f0)
    IN  /\ spans' = f.spans
        /\ hist' = [hist EXCEPT ![r] = Note(f.hist, "return", "fetchJSON")]
        /\ get' = [get EXCEPT ![r] = f.get]
        /\ loc' = [loc EXCEPT ![r] = [f.loc EXCEPT !.fDefers = <<>>, !.err = err]]
        /\ pc' = [pc EXCEPT ![r] = "h89"]

\* lines 118-120: if err != nil { return err }
F_CheckErr(r) ==
    /\ pc[r] = "f118"
    /\ IF loc[r].fErr # Nil
       THEN FetchReturn(r, Frame(r), loc[r].fErr)
       ELSE /\ pc' = [pc EXCEPT ![r] = "f122"]
            /\ UNCHANGED <<spans, hist, get, loc>>
    /\ UNCHANGED <<MainVars, resp, stderr>>

\* lines 122-125: span.SetAttributes(github.resp.status.code = r.StatusCode)
F_SetAttributes(r) ==
    /\ pc[r] = "f122"
    /\ spans' = SetAttributes(spans, loc[r].fSpan,
                    {<<"github.resp.status.code", Num(get[r].reply.status)>>})
    /\ hist' = [hist EXCEPT ![r] = Note(@, "attrs", loc[r].fSpan[2])]
    /\ pc' = [pc EXCEPT ![r] = "f126"]
    /\ UNCHANGED <<MainVars, loc, get, resp, stderr>>

\* the "fetch json" span not ended after the response
F_End_Missing(r) ==
    /\ pc[r] = "f126"
    /\ pc' = [pc EXCEPT ![r] = "f128"]
    /\ UNCHANGED <<MainVars, spans, hist, loc, get, resp, stderr>>

\* line 126: span.End()
F_End(r) ==
    /\ pc[r] = "f126"
    /\ spans' = End(spans, loc[r].fSpan)
    /\ hist' = [hist EXCEPT ![r] = Note(@, "end", loc[r].fSpan[2])]
    /\ pc' = [pc EXCEPT ![r] = "f128"]
    /\ UNCHANGED <<MainVars, loc, get, resp, stderr>>

\* the body closed at once instead of on return
F_DeferClose_Immediate(r) ==
    /\ pc[r] = "f128"
    /\ get' = [get EXCEPT ![r].closed = @ + 1]
    /\ hist' = [hist EXCEPT ![r] = Note(@, "close", "body")]
    /\ pc' = [pc EXCEPT ![r] = "f132"]
    /\ UNCHANGED <<MainVars, spans, loc, resp, stderr>>

\* lines 128-130: defer func(Body io.ReadCloser) { _ = Body.Close() }(r.Body)
F_DeferClose(r) ==
    /\ pc[r] = "f128"
    /\ loc' = [loc EXCEPT ![r].fDefers = Defer(@, <<"close", NoSpan>>)]
    /\ pc' = [pc EXCEPT ![r] = "f132"]
    /\ UNCHANGED <<MainVars, spans, get, resp, stderr, hist>>

\* the "parse json" span started from subCtx, under the "fetch json" span
F_StartParse_SubCtx(r) ==
    /\ pc[r] = "f132"
    /\ spans' = Start(spans, loc[r].fSubCtx, <<r, "parse json">>)
    /\ loc' = [loc EXCEPT ![r].fSpan = <<r, "parse json">>]
    /\ hist' = [hist EXCEPT ![r] = Note(@, "start", "parse json")]
    /\ pc' = [pc EXCEPT ![r] = "f133"]
    /\ UNCHANGED <<MainVars, get, resp, stderr>>

\* the new span not assigned to the variable span, which keeps "fetch json"
F_StartParse_NoAssign(r) ==
    /\ pc[r] = "f132"
    /\ spans' = Start(spans, loc[r].fCtx, <<r, "parse json">>)
    /\ hist' = [hist EXCEPT ![r] = Note(@, "start", "parse json")]
    /\ pc' = [pc EXCEPT ![r] = "f133"]
    /\ UNCHANGED <<MainVars, loc, get, resp, stderr>>

\* line 132: _, span = tracer.Start(ctx, "parse json")
F_StartParse(r) ==
    /\ pc[r] = "f132"
    /\ spans' = Start(spans, loc[r].fCtx, <<r, "parse json">>)
    /\ loc' = [loc EXCEPT ![r].fSpan = <<r, "parse json">>]
    /\ hist' = [hist EXCEPT ![r] = Note(@, "start", "parse json")]
    /\ pc' = [pc EXCEPT ![r] = "f133"]
    /\ UNCHANGED <<MainVars, get, resp, stderr>>

\* the End of the "parse json" span not deferred
F_DeferEnd_Missing(r) ==
    /\ pc[r] = "f133"
    /\ pc' = [pc EXCEPT ![r] = "f134"]
    /\ UNCHANGED <<MainVars, spans, loc, get, resp, stderr, hist>>

\* line 133: defer span.End(), the span being the one of line 132
F_DeferEnd(r) ==
    /\ pc[r] = "f133"
    /\ loc' = [loc EXCEPT ![r].fDefers = Defer(@, <<"end", loc[r].fSpan>>)]
    /\ pc' = [pc EXCEPT ![r] = "f134"]
    /\ UNCHANGED <<MainVars, spans, get, resp, stderr, hist>>

\* line 134: return json.NewDecoder(r.Body).Decode(target)
F_Decode(r) ==
    /\ pc[r] = "f134"
    /\ LET d == Decode(get[r].reply.body, loc[r].repo)
           f0 == [Frame(r) EXCEPT !.loc.repo = d.repo,
                                  !.get.decoded = @ + 1,
                                  !.hist = Note(@, "decode", "body")]
       IN  FetchReturn(r, f0, d.err)
    /\ UNCHANGED <<MainVars, resp, stderr>>

-----------------------------------------------------------------------------
(* Specifications *)

Next ==
    \/ InitTracer
    \/ S_Port
    \/ S_HandleFunc
    \/ S_Listen
    \/ \E r \in Reqs : Accept(r)
    \/ \E r \in Reqs : H_Start(r)
    \/ \E r \in Reqs : H_AddEvent(r)
    \/ \E r \in Reqs : H_CallFetch(r)
    \/ \E r \in Reqs : H_StartWrite(r)
    \/ \E r \in Reqs : H_DeferEnd(r)
    \/ \E r \in Reqs : H_CheckErr(r)
    \/ \E r \in Reqs : H_WriteHeader(r)
    \/ \E r \in Reqs : H_WriteError(r)
    \/ \E r \in Reqs : H_ReturnErr(r)
    \/ \E r \in Reqs : H_SetAttributes(r)
    \/ \E r \in Reqs : H_WriteReport(r)
    \/ \E r \in Reqs : H_EndRoot(r)
    \/ \E r \in Reqs : H_Return(r)
    \/ \E r \in Reqs : F_Start(r)
    \/ \E r \in Reqs : F_WithTimeout(r)
    \/ \E r \in Reqs : F_AddEvent(r)
    \/ \E r \in Reqs : F_GetSend(r)
    \/ \E r \in Reqs : Tick(r)
    \/ \E r \in Reqs : F_GetReply(r)
    \/ \E r \in Reqs : F_GetTimeout(r)
    \/ \E r \in Reqs : F_CheckErr(r)
    \/ \E r \in Reqs : F_SetAttributes(r)
    \/ \E r \in Reqs : F_End(r)
    \/ \E r \in Reqs : F_DeferClose(r)
    \/ \E r \in Reqs : F_StartParse(r)
    \/ \E r \in Reqs : F_DeferEnd(r)
    \/ \E r \in Reqs : F_Decode(r)

\* the service handling one request
Spec == Init /\ [][Next]_vars

\* the service started in any environment
SpecServe == InitServe /\ [][Next]_vars

\* the service handling MaxReq requests concurrently
SpecConc == InitConc /\ [][Next]_vars

-----------------------------------------------------------------------------
(* Reading the history of a request *)

Done(r) == pc[r] = "done"

\* how often request r made the call, and the position of its first occurrence
Count(r, op, what) == Cardinality({i \in DOMAIN hist[r] : hist[r][i] = <<op, what>>})

Pos(r, op, what) ==
    IF Count(r, op, what) = 0 THEN 0
    ELSE CHOOSE i \in DOMAIN hist[r] :
            /\ hist[r][i] = <<op, what>>
            /\ \A j \in 1..(i - 1) : hist[r][j] # <<op, what>>

Occurs(r, op, what) == Count(r, op, what) > 0

\* both calls were made, each once, the first before the second
Precedes(r, a, b) ==
    /\ Count(r, a[1], a[2]) = 1
    /\ Count(r, b[1], b[2]) = 1
    /\ Pos(r, a[1], a[2]) < Pos(r, b[1], b[2])

Returned(r) == Occurs(r, "return", "fetchJSON")

GotResponse(r) == Occurs(r, "get", "response")

\* a body that does not decode into Repository
BadBody(b) ==
    \/ b.kind = "malformed"
    \/ \E k \in DOMAIN b.obj : b.obj[k].t # (IF k \in {"name", "full_name"} THEN "string" ELSE "number")

\* the upstream failed request r: no response, or a body that does not decode
UpstreamFailed(r) == get[r].reply.kind # "resp" \/ BadBody(get[r].reply.body)

HasLine(line) == \E i \in DOMAIN log : log[i] = line

-----------------------------------------------------------------------------
(* C1 *)

\* C1: when handler has returned, every span that was started has been ended
\* exactly once, except only the root span "/run" when fetchJSON returned an
\* error, which is left unended.
C1_EverySpanEndedOnce ==
    \A r \in Reqs : Done(r) =>
        \A n \in SpanNames :
            LET s == spans[<<r, n>>]
            IN  /\ s.started <= 1
                /\ s.started = 1 =>
                      IF n = "/run" /\ loc[r].err # Nil THEN s.ended = 0 ELSE s.ended = 1

-----------------------------------------------------------------------------
(* C2 *)

\* C2: handler answers 500 with a body beginning "error: " exactly when the
\* outbound Get failed or the body failed to decode; otherwise, whatever the
\* upstream status code, it answers 200 with the report; it never writes both.
C2_ErrorExactlyOnFailure ==
    \A r \in Reqs : Done(r) =>
        /\ loc[r].err # Nil <=> UpstreamFailed(r)
        /\ IF UpstreamFailed(r)
           THEN /\ resp[r].status = 500
                /\ SubSeq(resp[r].body, 1, 7) = "error: "
                /\ Count(r, "write", "error") = 1
                /\ ~Occurs(r, "write", "report")
           ELSE /\ resp[r].status = 200
                /\ SubSeq(resp[r].body, 1, 6) = "===== "
                /\ Count(r, "write", "report") = 1
                /\ ~Occurs(r, "write", "error")
                /\ ~Occurs(r, "header", "500")

\* a request answered 200 although the upstream status was 404
C2_Witness ==
    \E r \in Reqs :
        /\ Done(r)
        /\ get[r].reply.kind = "resp"
        /\ get[r].reply.status = 404
        /\ resp[r].status = 200

-----------------------------------------------------------------------------
(* C3 *)

\* C3: the outbound Get waits at most 3 seconds: an upstream that has not
\* answered 3 seconds after the call started sees the call cancelled at that
\* moment, fetchJSON return the timeout error and handler answer 500 with it.
C3_CancelledAfterThreeSeconds ==
    \A r \in Reqs :
        /\ get[r].elapsed <= 3
        /\ (Done(r) /\ get[r].elapsed = 3 /\ get[r].reply.kind = "none") =>
              /\ loc[r].err = ClientTimeoutText
              /\ resp[r].status = 500
              /\ resp[r].body = "error: " \o ClientTimeoutText \o "\n"

-----------------------------------------------------------------------------
(* C4 *)

\* C4 as stated: on the success path the root span is opened, the fetch
\* opens and closes "fetch json" and "parse json", then the attributes are
\* set on the root span, then the "write" span is opened, then the body is
\* written, then the remaining spans are closed.
C4_AttributesBeforeWriteSpan ==
    \A r \in Reqs : (Done(r) /\ loc[r].err = Nil) =>
        /\ Precedes(r, <<"start", "/run">>, <<"start", "fetch json">>)
        /\ Precedes(r, <<"start", "fetch json">>, <<"end", "fetch json">>)
        /\ Precedes(r, <<"end", "fetch json">>, <<"start", "parse json">>)
        /\ Precedes(r, <<"start", "parse json">>, <<"end", "parse json">>)
        /\ Precedes(r, <<"end", "parse json">>, <<"attrs", "/run">>)
        /\ Precedes(r, <<"attrs", "/run">>, <<"start", "write">>)
        /\ Precedes(r, <<"start", "write">>, <<"write", "report">>)
        /\ Precedes(r, <<"write", "report">>, <<"end", "/run">>)
        /\ Precedes(r, <<"write", "report">>, <<"end", "write">>)

\* C4 amended: the same order, except that the "write" span is opened
\* before the attributes are set on the root span.
C4_WriteSpanBeforeAttributes ==
    \A r \in Reqs : (Done(r) /\ loc[r].err = Nil) =>
        /\ Precedes(r, <<"start", "/run">>, <<"start", "fetch json">>)
        /\ Precedes(r, <<"start", "fetch json">>, <<"end", "fetch json">>)
        /\ Precedes(r, <<"end", "fetch json">>, <<"start", "parse json">>)
        /\ Precedes(r, <<"start", "parse json">>, <<"end", "parse json">>)
        /\ Precedes(r, <<"end", "parse json">>, <<"start", "write">>)
        /\ Precedes(r, <<"start", "write">>, <<"attrs", "/run">>)
        /\ Precedes(r, <<"attrs", "/run">>, <<"write", "report">>)
        /\ Precedes(r, <<"write", "report">>, <<"end", "/run">>)
        /\ Precedes(r, <<"write", "report">>, <<"end", "write">>)

\* a request that succeeded, its report written under an open "write" span
C4_Witness ==
    \E r \in Reqs :
        /\ Done(r)
        /\ loc[r].err = Nil
        /\ resp[r].status = 200
        /\ Pos(r, "start", "write") + 1 = Pos(r, "attrs", "/run")

-----------------------------------------------------------------------------
(* C5 *)

NumberAt(o, k) == IF k \in DOMAIN o THEN o[k].n ELSE 0
StringAt(o, k) == IF k \in DOMAIN o THEN o[k].s ELSE ""

\* C5: for every upstream object that decodes into Repository, absent
\* fields being 0 or "", the success body is exactly the five-line report
\* of that object's full_name, name, id, stargazers_count and forks.
C5_ReportOfDecodedObject ==
    \A r \in Reqs : Occurs(r, "write", "report") =>
        LET o == get[r].reply.body.obj
        IN  resp[r].body =
                "===== " \o StringAt(o, "full_name") \o " =====\n"
                \o "Repository: " \o StringAt(o, "name")
                \o " (ID: " \o ToString(NumberAt(o, "id")) \o ")\n"
                \o "Star Count: " \o ToString(NumberAt(o, "stargazers_count")) \o "\n"
                \o "Fork Count: " \o ToString(NumberAt(o, "forks")) \o "\n"
                \o "URL: https://github.com/" \o StringAt(o, "full_name")

\* the scenario: golang/go, id 1, 9000 stars, 500 forks
C5_Witness ==
    \E r \in Reqs :
        /\ Done(r)
        /\ get[r].reply.body = GoBody
        /\ resp[r].body = "===== golang/go =====\nRepository: go (ID: 1)\nStar Count: 9000\nFork Count: 500\nURL: https://github.com/golang/go"

-----------------------------------------------------------------------------
(* C6 *)

\* C6: once fetchJSON has returned, a response that Get returned has had its
\* body closed exactly once, after the decoding, whether that succeeded or
\* failed; when Get returned an error nothing was decoded and nothing closed.
C6_BodyClosedOnceAfterDecode ==
    \A r \in Reqs :
        /\ get[r].closed <= 1
        /\ Occurs(r, "close", "body") => Precedes(r, <<"decode", "body">>, <<"close", "body">>)
        /\ Returned(r) =>
              IF GotResponse(r)
              THEN get[r].closed = 1 /\ get[r].decoded = 1
              ELSE get[r].closed = 0 /\ get[r].decoded = 0

\* a response whose body failed to decode, closed after the attempt
C6_Witness ==
    \E r \in Reqs :
        /\ Returned(r)
        /\ GotResponse(r)
        /\ loc[r].err # Nil
        /\ get[r].closed = 1

-----------------------------------------------------------------------------
(* C7 *)

PortSet == "PORT" \in DOMAIN environ /\ environ["PORT"] # ""

\* C7: serveHTTP listens on port 8080 and logs the default-port line exactly
\* when PORT is unset or empty; for every non-empty PORT it listens on that
\* literal value and does not log the default-port line.
C7_DefaultPortExactlyWhenUnset ==
    mainpc \in {"listening", "exit"} /\ listenAddr # "" =>
        /\ (listenAddr = ":8080" /\ HasLine("defaulting to port 8080")) <=> ~PortSet
        /\ PortSet =>
              /\ listenAddr = ":" \o environ["PORT"]
              /\ ~HasLine("defaulting to port 8080")

\* PORT=3000: the server listens on :3000
C7_Witness ==
    /\ mainpc = "listening"
    /\ PortSet
    /\ environ["PORT"] = "3000"
    /\ listenAddr = ":3000"

-----------------------------------------------------------------------------
(* C8 *)

Children == {"fetch json", "parse json", "write"}

\* a span of request r started while the root span was active
StartedUnderRoot(r, n) ==
    /\ Precedes(r, <<"start", "/run">>, <<"start", n>>)
    /\ Occurs(r, "end", "/run") => Pos(r, "start", n) < Pos(r, "end", "/run")

\* C8 as stated: every child span is started while the root span is active
\* and, where the root span is ended, has been ended before it.
C8_ChildrenEndBeforeRoot ==
    \A r \in Reqs : \A n \in Children :
        /\ Occurs(r, "start", n) => StartedUnderRoot(r, n)
        /\ (Occurs(r, "start", n) /\ Occurs(r, "end", "/run")) =>
              Precedes(r, <<"end", n>>, <<"end", "/run">>)

\* C8 amended: every child span is started while the root span is active;
\* where the root span is ended, "fetch json" and "parse json" have been
\* ended before it, and "write" is ended after it, when handler returns.
C8_WriteEndsAfterRoot ==
    \A r \in Reqs : \A n \in Children :
        /\ Occurs(r, "start", n) => StartedUnderRoot(r, n)
        /\ (Occurs(r, "start", n) /\ Occurs(r, "end", "/run")) =>
              IF n = "write"
              THEN /\ ~Occurs(r, "end", "write") => ~Done(r)
                   /\ Occurs(r, "end", "write") =>
                         Precedes(r, <<"end", "/run">>, <<"end", "write">>)
              ELSE Precedes(r, <<"end", n>>, <<"end", "/run">>)

\* a request whose root span has been ended, and its "write" span after it
C8_Witness ==
    \E r \in Reqs :
        /\ Done(r)
        /\ Occurs(r, "end", "/run")
        /\ Pos(r, "end", "/run") < Pos(r, "end", "write")

-----------------------------------------------------------------------------
(* C9 *)

\* C9: no span is mutated after it has been ended: every AddEvent and
\* SetAttributes call reaches an active span, and no span is ended twice.
C9_NoMutationAfterEnd ==
    \A id \in SpanIds :
        /\ spans[id].late = 0
        /\ spans[id].ended <= 1
        /\ spans[id].ended = 1 => spans[id].started = 1

\* a request whose root span took its event and its three attributes and
\* whose "fetch json" span took its event and its attribute, all four ended
C9_Witness ==
    \E r \in Reqs :
        /\ Done(r)
        /\ \A n \in SpanNames : spans[<<r, n>>].ended = 1
        /\ Len(spans[<<r, "/run">>].events) = 1
        /\ Cardinality(spans[<<r, "/run">>].attrs) = 3
        /\ Len(spans[<<r, "fetch json">>].events) = 1
        /\ Cardinality(spans[<<r, "fetch json">>].attrs) = 1

-----------------------------------------------------------------------------
(* C10 *)

\* the answer to a request as its own upstream result decides it
AnswerTo(reply) ==
    IF reply.kind = "none"
    THEN [status |-> 500, body |-> "error: " \o ClientTimeoutText \o "\n"]
    ELSE IF reply.kind = "neterr"
    THEN [status |-> 500, body |-> "error: " \o NetErrorText \o "\n"]
    ELSE IF BadBody(reply.body)
    THEN [status |-> 500, body |-> Write(NewWriter, Sprintf(ErrorFormat,
              <<Str(Decode(reply.body, ZeroRepository).err)>>)).body]
    ELSE [status |-> 200, body |-> Sprintf(ReportFormat,
              ReportArgs(Decode(reply.body, ZeroRepository).repo))]

\* every started span of request r is the root of r's own trace or a child
\* of that root
OwnTrace(r) ==
    \A n \in SpanNames :
        spans[<<r, n>>].started > 0 =>
            /\ spans[<<r, n>>].trace = <<r, "/run">>
            /\ spans[<<r, n>>].parent = IF n = "/run" THEN NoSpan ELSE <<r, "/run">>

\* a step that changes the state of one request changes no other request's
OneRequestPerStep ==
    \A q \in Reqs : \A r \in Reqs \ {q} :
        (<<pc[r], loc[r], get[r], resp[r], hist[r]>>' # <<pc[r], loc[r], get[r], resp[r], hist[r]>>)
            => /\ <<pc[q], loc[q], get[q], resp[q], hist[q]>>' = <<pc[q], loc[q], get[q], resp[q], hist[q]>>
               /\ \A n \in SpanNames : spans'[<<q, n>>] = spans[<<q, n>>]

\* C10: under any interleaving of concurrent handler invocations the tracer
\* is written only by initTracer, before any request is served; every span
\* of a request is the root span of that request or a child of it, in its
\* own trace; a step of one request changes nothing of another; and the
\* answer to each request is decided by its own upstream result.
C10_RequestsShareNoState ==
    /\ [](\A r \in Reqs : OwnTrace(r))
    /\ [](\A r \in Reqs : Done(r) => resp[r] = AnswerTo(get[r].reply))
    /\ [][tracer' # tracer => (mainpc = "initTracer" /\ \A r \in Reqs : pc[r] = "idle")]_vars
    /\ [][OneRequestPerStep]_vars

\* two requests in flight at once, one about to write its report and the
\* other its error
C10_Witness ==
    \E r \in Reqs : \E q \in Reqs \ {r} :
        /\ pc[r] = "h104"
        /\ pc[q] = "h94"
        /\ spans[<<r, "write">>].started = 1
        /\ spans[<<q, "write">>].started = 1

====
